---- MODULE Spec2Model ----
(***************************************************************************)
(* Model of esuEdu/ai-wrapper.                                             *)
(*                                                                         *)
(*  StreamSpec  : the streaming pipeline. The decoder goroutine of openai  *)
(*                Client.ChatStream (chat.go 95-157), the relay goroutine  *)
(*                of Service.ChatStream (service.go 201-223) and a         *)
(*                consumer ranging over the returned channel.              *)
(*  RequestSpec : the retry loop and status classification of              *)
(*                Client.makeRequest (client.go 81-128).                   *)
(***************************************************************************)
EXTENDS Integers, Sequences, FiniteSets

VARIABLES
    \* ---- streaming pipeline -------------------------------------------
    direct,        \* TRUE: the consumer ranges over the provider channel itself
    lines,         \* the lines scanner.Scan() has returned so far, in order
    scanEnd,       \* "open" | "eof" | "err": how scanner.Scan() returned false
    responseID,    \* decoder local `responseID`
    pcD,           \* decoder goroutine: "scan" | "send" | "exit" | "done" | "off"
    pending,       \* the chunk the decoder is sending
    retAfter,      \* whether the decoder returns after that send
    responseChan,  \* buffered provider channel (chat.go:92)
    respClosed,    \* close(responseChan) has run
    bodyClosed,    \* number of times resp.Body.Close() has run
    pcR,           \* relay goroutine: "idle" | "recv" | "send" | "exit" | "done"
    chunkR,        \* relay loop variable `chunk`
    totalChunks,   \* relay local `totalChunks`
    loggedStream,  \* buffered Service channel (service.go:199)
    loggedClosed,  \* close(loggedStream) has run
    pcC,           \* consumer: "recv" | "done" | "stopped" | "off"
    received,      \* the chunks the consumer has received, in order
    sentP,         \* log of every send on responseChan
    sentS,         \* log of every send on loggedStream
    \* ---- makeRequest --------------------------------------------------
    cfgMaxRetries, \* Config.MaxRetries handed to NewClient
    maxRetries,    \* Client.maxRetries
    pcM,           \* makeRequest: "off" | "loop" | "sleep" | "after" | "done"
    i,             \* loop counter
    resp,          \* index into attempts of the response `resp` holds, 0 = nil
    err,           \* `err`: 0 = nil, k = the network error of attempt k
    attempts,      \* every httpClient.Do made so far: outcome and body state
    sleeps,        \* the seconds slept so far, in order
    result,        \* what makeRequest returned
    \* ---- context -------------------------------------------------------
    cancelled,     \* the ctx of the streaming call is cancelled or timed out
    \* ---- Service ---------------------------------------------------------
    providers,     \* Service.providers: name -> provider, NoProvider if absent
    svcCall,       \* the Service method being run, with its provider name
    svcResult,     \* what that method returned
    providerCalls, \* the provider methods called so far, in order
    chansMade,     \* number of channels created by make(chan ...)
    goroutines,    \* number of goroutines started by `go func`
    \* ---- registry, concurrent callers ------------------------------------
    gpc,           \* per goroutine: the registry operation it is inside
    regs,          \* every registry call made so far, in order
    \* ---- terminal UI (ChatModel) ----------------------------------------
    history,       \* ChatModel.history after the welcome line
    pcA,           \* per question: where its askAI command is
    aiReply,       \* per question: askAI's strings.Builder `aiReply`
    got,           \* per question: the chunks askAI has received, in order
    msg,           \* per question: the tea.Msg askAI returned
    quit           \* Update has returned tea.Quit

streamVars == <<direct, lines, scanEnd, responseID, pcD, pending, retAfter,
                responseChan, respClosed, bodyClosed, pcR, chunkR, totalChunks,
                loggedStream, loggedClosed, pcC, received, sentP, sentS>>
requestVars == <<cfgMaxRetries, maxRetries, pcM, i, resp, err, attempts,
                 sleeps, result>>
ctxVars == <<cancelled>>
serviceVars == <<providers, svcCall, svcResult, providerCalls, chansMade, goroutines>>
registryVars == <<gpc, regs>>
uiVars == <<history, pcA, aiReply, got, msg, quit>>
extVars == <<ctxVars, serviceVars, registryVars, uiVars>>
vars == <<streamVars, requestVars, extVars>>

\* ------------------------------------------------------------------ bounds
\* Longest body (in lines) the scanner is given before it must end.
MaxLines == 3
\* Capacity of both channels in the model. The code's capacity is 100
\* (chat.go:92, service.go:199); bodies are scaled down with it so that the
\* full-buffer case happens.
ChanCap == 2
\* Largest Config.MaxRetries tried.
MaxCfgRetries == 2
\* Most registry calls made in one run.
MaxCalls == 3
\* Most chunks a stream hands to askAI before it is closed.
MaxChunks == 3

\* ------------------------------------------------------------ stream data
Nil == "nil"

\* ai.StreamResponse
StreamResponse(id, content, done, error) ==
    [ID |-> id, Content |-> content, Done |-> done, Error |-> error]

NoChunk == StreamResponse("", "", FALSE, Nil)

IsTerminal(c) == c.Done \/ c.Error # Nil

\* The payload of a `data: ` line: the text "[DONE]", text that is not JSON,
\* the JSON literal null, or a JSON object with an id and a choices list.
Payload(kind, id, choices) == [kind |-> kind, id |-> id, choices |-> choices]
Choice(content, finish) == [content |-> content, finish_reason |-> finish]

Payloads ==
    { Payload("done", "", <<>>),
      Payload("malformed", "", <<>>),
      Payload("null", "", <<>>),
      Payload("object", "x", <<>>),
      Payload("object", "x", <<Choice("Hi", "null")>>),
      Payload("object", "y", <<Choice("Hi", "null"), Choice("!", "stop")>>),
      Payload("object", "x", <<Choice("!", "stop")>>),
      Payload("object", "y", <<Choice("!", "stop")>>) }

\* A line of the body: its prefix and what follows it.
Line(prefix, payload) == [prefix |-> prefix, payload |-> payload]
NoPayload == Payload("none", "", <<>>)

Lines ==
    { Line("", NoPayload), Line(":", NoPayload), Line("event: ", NoPayload) }
    \cup { Line("data: ", p) : p \in Payloads }

\* json.Unmarshal([]byte(data), &streamResp) into openAIStreamResponse
Unmarshal(p) ==
    CASE p.kind = "object" ->
           [err |-> Nil, ID |-> p.id,
            Choices |-> [j \in 1..Len(p.choices) |->
                           [Content |-> p.choices[j].content,
                            FinishReason |-> IF p.choices[j].finish_reason = "null"
                                             THEN Nil
                                             ELSE p.choices[j].finish_reason]]]
      [] p.kind = "null" -> [err |-> Nil, ID |-> "", Choices |-> <<>>]
      [] OTHER -> [err |-> "parse", ID |-> "", Choices |-> <<>>]

\* One iteration of the scanner loop on `line`: the new responseID, whether a
\* chunk is sent, the chunk, and whether the goroutine returns after sending.
Iter(id, emit, chunk, ret) == [id |-> id, emit |-> emit, chunk |-> chunk, ret |-> ret]

\* Mutant: the [DONE] chunk forgets the remembered response id.
OnDoneNoID(rid) == Iter(rid, TRUE, StreamResponse("", "", TRUE, Nil), TRUE)

\* data == "[DONE]" (chat.go 115-121)
OnDone(rid) == Iter(rid, TRUE, StreamResponse(rid, "", TRUE, Nil), TRUE)

\* Mutant: the decode failure sends its chunk and goes on reading.
OnParseErrorNoReturn(rid) ==
    Iter(rid, TRUE, StreamResponse("", "", FALSE, "parse"), FALSE)

\* json.Unmarshal failed (chat.go 125-130)
OnParseError(rid) == Iter(rid, TRUE, StreamResponse("", "", FALSE, "parse"), TRUE)

\* Mutant: no return after a chunk with Done set.
OnFrameNoReturn(streamResp) ==
    IF Len(streamResp.Choices) > 0
    THEN Iter(streamResp.ID, TRUE,
              StreamResponse(streamResp.ID, streamResp.Choices[1].Content,
                             streamResp.Choices[1].FinishReason # Nil, Nil), FALSE)
    ELSE Iter(streamResp.ID, FALSE, NoChunk, FALSE)

\* Mutant: the chunk is built from the last choice, not the first.
OnFrameLastChoice(streamResp) ==
    IF Len(streamResp.Choices) > 0
    THEN LET last == streamResp.Choices[Len(streamResp.Choices)]
         IN Iter(streamResp.ID, TRUE,
                 StreamResponse(streamResp.ID, last.Content,
                                last.FinishReason # Nil, Nil),
                 last.FinishReason # Nil)
    ELSE Iter(streamResp.ID, FALSE, NoChunk, FALSE)

\* A decoded frame (chat.go 132-148)
OnFrame(streamResp) ==
    IF Len(streamResp.Choices) > 0
    THEN LET content == streamResp.Choices[1].Content
             done == streamResp.Choices[1].FinishReason # Nil
         IN Iter(streamResp.ID, TRUE,
                 StreamResponse(streamResp.ID, content, done, Nil), done)
    ELSE Iter(streamResp.ID, FALSE, NoChunk, FALSE)

\* The body of the scanner loop (chat.go 103-149)
ProcessLine(line, rid) ==
    IF line.prefix = "" \/ line.prefix = ":" THEN Iter(rid, FALSE, NoChunk, FALSE)
    ELSE IF line.prefix # "data: " THEN Iter(rid, FALSE, NoChunk, FALSE)
    ELSE IF line.payload.kind = "done" THEN OnDone(rid)
    ELSE LET streamResp == Unmarshal(line.payload) IN
         IF streamResp.err # Nil THEN OnParseError(rid) ELSE OnFrame(streamResp)

\* ------------------------------------------------------------ request data
\* The retry bound NewClient stores (client.go 41-44).
DefaultMaxRetries == 3
NewClientMaxRetries(cfg) == IF cfg = 0 THEN DefaultMaxRetries ELSE cfg

\* A response body: a vendor error envelope {"error":{message,type,code}},
\* text that is not JSON, a JSON result, or nothing.
Body(kind, code, message, type) ==
    [kind |-> kind, code |-> code, message |-> message, type |-> type]
EnvelopeBody == Body("envelope", "c", "m", "t")
TextBody == Body("text", "", "", "")
ResultBody == Body("result", "", "", "")
EmptyBody == Body("empty", "", "", "")

\* What one httpClient.Do returns: a network error (nil response), or a
\* response with a status and an open body.
Outcome(neterr, status, body) ==
    [neterr |-> neterr, status |-> status, body |-> body, closed |-> FALSE]

Outcomes ==
    { Outcome(TRUE, 0, EmptyBody) }
    \cup { Outcome(FALSE, s, ResultBody) : s \in {200, 399} }
    \cup { Outcome(FALSE, s, b) : s \in {400, 499, 500, 503},
                                  b \in {EnvelopeBody, TextBody} }

\* Mutant: only a status below 400 ends the loop, so a 4xx is retried.
ShouldBreakBelow400(e, status) == e = 0 /\ status < 400

\* err == nil && resp.StatusCode < 500 (client.go:84)
ShouldBreak(e, status) == e = 0 /\ status < 500

\* Mutant: the backoff the comment at client.go:96 announces, 2^k seconds.
BackoffExponential(k) == 2 ^ k

\* time.Duration(i+1) * time.Second (client.go:97), in seconds.
Backoff(k) == k + 1

\* i == c.maxRetries (client.go:92)
LastAttempt(k, bound) == k = bound

\* io.ReadAll(resp.Body): a body that was closed yields nothing (client.go:106).
ReadAll(a) == IF a.closed THEN EmptyBody ELSE a.body

\* json.Unmarshal(body, &apiError) (client.go 108-116)
UnmarshalError(b) ==
    IF b.kind = "envelope" THEN [err |-> Nil, Code |-> b.code,
                                 Message |-> b.message, Type |-> b.type]
    ELSE IF b.kind = "result" THEN [err |-> Nil, Code |-> "", Message |-> "", Type |-> ""]
    ELSE [err |-> "parse", Code |-> "", Message |-> "", Type |-> ""]

\* What makeRequest returns.
Result(kind, r, status, body, wraps, retries) ==
    [kind |-> kind, resp |-> r, status |-> status, body |-> body,
     wraps |-> wraps, retries |-> retries]
NoResult == Result("none", 0, 0, EmptyBody, 0, 0)

\* Mutant: resp.Body.Close() is never called.
CloseBodyNever(log, k, close) == log

\* resp.Body.Close() (client.go 88-90, 105): the body of attempt k is closed
\* when `close` holds.
CloseBody(log, k, close) ==
    [j \in 1..Len(log) |-> IF j = k /\ close THEN [log[j] EXCEPT !.closed = TRUE]
                           ELSE log[j]]

\* client.go 100-127: the outcome after the retry loop.
Classify(e, r, log, bound) ==
    IF e # 0 THEN Result("RequestFailed", 0, 0, EmptyBody, e, bound)
    ELSE IF r = 0 THEN Result("panic", 0, 0, EmptyBody, 0, 0)
    ELSE IF log[r].status >= 400
         THEN LET body == ReadAll(log[r])
                  apiError == UnmarshalError(body)
              IN IF apiError.err = Nil
                 THEN Result("ProviderError", 0, 0,
                             Body("envelope", apiError.Code, apiError.Message,
                                  apiError.Type), 0, 0)
                 ELSE Result("HTTPError", 0, log[r].status, body, 0, 0)
         ELSE Result("ok", r, log[r].status, log[r].body, 0, 0)

\* ------------------------------------------------------------ service data
\* Provider names and Provider values a Service is used with.
Names == {"openai", "claude"}
Providers == {"p1", "p2"}
NoProvider == "none"

\* The goroutines that call the registry concurrently.
Goroutines == {1, 2}

\* What a registry method returns: a provider, an error, a list of names.
RegOut(prov, error, names) == [prov |-> prov, err |-> error, names |-> names]
NoOut == RegOut(NoProvider, Nil, <<>>)

\* A goroutine's position in a registry method: "map" while it is inside the
\* access to s.providers, "done" once the method has returned `out`.
RegOp(op, name, prov, phase, out) ==
    [op |-> op, name |-> name, prov |-> prov, phase |-> phase, out |-> out]
IdleOp == RegOp("idle", "", NoProvider, "idle", NoOut)

\* fmt.Errorf("provider '%s' not found", name) (service.go:145)
NotFound(name) ==
    IF name = "openai" THEN "provider 'openai' not found"
    ELSE "provider 'claude' not found"

\* Mutant: an existing entry is kept (first write wins).
PutIfAbsent(m, name, prov) ==
    IF m[name] = NoProvider THEN [m EXCEPT ![name] = prov] ELSE m

\* s.providers[name] = provider (service.go:137)
Put(m, name, prov) == [m EXCEPT ![name] = prov]

\* Mutant: an unknown name falls back to the "openai" entry.
GetProviderOrDefault(m, name) ==
    IF m[name] # NoProvider THEN RegOut(m[name], Nil, <<>>)
    ELSE IF m["openai"] # NoProvider THEN RegOut(m["openai"], Nil, <<>>)
    ELSE RegOut(NoProvider, NotFound(name), <<>>)

\* Service.GetProvider (service.go 142-148)
GetProvider(m, name) ==
    IF m[name] = NoProvider THEN RegOut(NoProvider, NotFound(name), <<>>)
    ELSE RegOut(m[name], Nil, <<>>)

\* The orders in which `for name := range s.providers` may visit the keys
\* (service.go 152-156): every order of the names present, each once.
KeyOrders(m) ==
    LET keys == {n \in Names : m[n] # NoProvider}
    IN {q \in UNION {[1..k -> keys] : k \in 0..Cardinality(Names)} :
          /\ Len(q) = Cardinality(keys)
          /\ \A a, b \in 1..Len(q) : a # b => q[a] # q[b]}

\* A call of a Service method, and what it returned: a response or channel
\* (`value`) and an error.
SvcCall(op, name) == [op |-> op, name |-> name]
NoCall == SvcCall("none", "")
SvcResult(kind, value, error) == [kind |-> kind, value |-> value, error |-> error]
NoSvcResult == SvcResult("none", "nil", Nil)

ctxOff == cancelled = FALSE
serviceOff ==
    /\ providers = [n \in Names |-> NoProvider]
    /\ svcCall = NoCall /\ svcResult = NoSvcResult
    /\ providerCalls = <<>> /\ chansMade = 0 /\ goroutines = 0
registryOff == gpc = [g \in Goroutines |-> IdleOp] /\ regs = <<>>

\* ------------------------------------------------------------------ UI data
\* What the user types before pressing enter, after strings.TrimSpace.
Questions == {"", "hi", "more"}
Asked == Questions \ {""}

\* A string as the sequence of its characters.
Chars(str) ==
    CASE str = "" -> <<>>
      [] str = "!" -> <<"!">>
      [] str = "Hi" -> <<"H", "i">>

\* A tea.Msg returned by askAI: responseMsg(text) or errMsg(error).
ResponseMsg(text) == [kind |-> "responseMsg", text |-> text, err |-> Nil]
ErrMsg(e) == [kind |-> "errMsg", text |-> <<>>, err |-> e]
NoMsg == [kind |-> "none", text |-> <<>>, err |-> Nil]

\* A transcript line: "You: %s", "AI: %s" or "Error: %v".
HistoryLine(kind, q, text, e) == [kind |-> kind, q |-> q, text |-> text, err |-> e]

\* The chunks a stream may hand to askAI.
UIChunks ==
    { StreamResponse("x", "Hi", FALSE, Nil), StreamResponse("x", "!", FALSE, Nil),
      StreamResponse("x", "!", TRUE, Nil), StreamResponse("x", "", TRUE, Nil),
      StreamResponse("", "", FALSE, "scan") }

\* The errors Service.ChatStream may return to askAI.
UIStreamErrors == {NotFound("openai"), "RequestFailed"}

\* aiReply.WriteString(chunk.Content) (chat_model.go:124)
WriteString(b, str) == b \o Chars(str)

\* One pass of askAI's loop body: what the builder holds afterwards, where
\* askAI goes next, and the message it returns if it returns here.
AskIter(reply, next, m) == [reply |-> reply, next |-> next, msg |-> m]

\* Mutant: the content is written before the Done test.
AskStepWritesFirst(chunk, reply) ==
    IF chunk.Error # Nil THEN AskIter(reply, "msg", ErrMsg(chunk.Error))
    ELSE IF chunk.Done THEN AskIter(WriteString(reply, chunk.Content), "ret", NoMsg)
    ELSE AskIter(WriteString(reply, chunk.Content), "recv", NoMsg)

\* chat_model.go 116-127
AskStep(chunk, reply) ==
    IF chunk.Error # Nil THEN AskIter(reply, "msg", ErrMsg(chunk.Error))
    ELSE IF chunk.Done THEN AskIter(reply, "ret", NoMsg)
    ELSE AskIter(WriteString(reply, chunk.Content), "recv", NoMsg)

uiOff ==
    /\ history = <<>> /\ quit = FALSE
    /\ pcA = [q \in Asked |-> "idle"]
    /\ aiReply = [q \in Asked |-> <<>>]
    /\ got = [q \in Asked |-> <<>>]
    /\ msg = [q \in Asked |-> NoMsg]
extOff == ctxOff /\ serviceOff /\ registryOff /\ uiOff

\* --------------------------------------------------------- stream actions
requestOff ==
    /\ cfgMaxRetries = 0 /\ maxRetries = 0 /\ pcM = "off" /\ i = 0 /\ resp = 0
    /\ err = 0 /\ attempts = <<>> /\ sleeps = <<>> /\ result = NoResult

StreamInit ==
    /\ direct \in BOOLEAN
    /\ lines = <<>> /\ scanEnd = "open" /\ responseID = ""
    /\ pcD = "scan" /\ pending = NoChunk /\ retAfter = FALSE
    /\ responseChan = <<>> /\ respClosed = FALSE /\ bodyClosed = 0
    /\ pcR = IF direct THEN "idle" ELSE "recv"
    /\ chunkR = NoChunk /\ totalChunks = 0
    /\ loggedStream = <<>> /\ loggedClosed = FALSE
    /\ pcC = "recv" /\ received = <<>>
    /\ sentP = <<>> /\ sentS = <<>>
    /\ requestOff
    /\ extOff

\* Mutant: a send never blocks, as on an unbounded queue.
ChanFullNever(ch) == FALSE

\* A send on a buffered channel blocks while the buffer holds ChanCap chunks
\* (make(chan ai.StreamResponse, 100): chat.go:92, service.go:199).
ChanFull(ch) == Len(ch) >= ChanCap

\* Mutant: a non-blocking send that drops the chunk when the buffer is not
\* empty (select with a default case).
EnqueueOrDrop(ch, c) == IF ch # <<>> THEN ch ELSE Append(ch, c)

\* ch <- c: the chunk joins the end of the buffer (chat.go:139, service.go:207).
Enqueue(ch, c) == Append(ch, c)

decoderVars == <<lines, scanEnd, responseID, pcD, pending, retAfter, bodyClosed>>
relayVars == <<pcR, chunkR, totalChunks>>

\* scanner.Scan() returns true with the next line (chat.go 102-149).
Scan ==
    /\ pcD = "scan" /\ scanEnd = "open" /\ Len(lines) < MaxLines
    /\ \E line \in Lines :
         LET r == ProcessLine(line, responseID) IN
         /\ lines' = Append(lines, line)
         /\ responseID' = r.id
         /\ pending' = r.chunk
         /\ retAfter' = r.ret
         /\ pcD' = IF r.emit THEN "send" ELSE "scan"
    /\ UNCHANGED <<direct, scanEnd, responseChan, respClosed, bodyClosed,
                   relayVars, loggedStream, loggedClosed, pcC, received,
                   sentP, sentS, requestVars, extVars>>

\* scanner.Scan() returns false at end of file: scanner.Err() is nil and the
\* goroutine falls off its end (chat.go 102, 152-157).
ScanEOF ==
    /\ pcD = "scan" /\ scanEnd = "open"
    /\ scanEnd' = "eof"
    /\ pcD' = "exit"
    /\ UNCHANGED <<direct, lines, responseID, pending, retAfter, responseChan,
                   respClosed, bodyClosed, relayVars, loggedStream, loggedClosed,
                   pcC, received, sentP, sentS, requestVars, extVars>>

\* scanner.Scan() returns false on a read failure: scanner.Err() is set and
\* the error chunk is sent (chat.go 152-156).
ScanFail ==
    /\ pcD = "scan" /\ scanEnd = "open"
    /\ scanEnd' = "err"
    /\ pending' = StreamResponse("", "", FALSE, "scan")
    /\ retAfter' = TRUE
    /\ pcD' = "send"
    /\ UNCHANGED <<direct, lines, responseID, responseChan, respClosed,
                   bodyClosed, relayVars, loggedStream, loggedClosed, pcC,
                   received, sentP, sentS, requestVars, extVars>>

\* responseChan <- chunk: blocks while the buffer is full.
DecoderSend ==
    /\ pcD = "send" /\ ~ChanFull(responseChan)
    /\ responseChan' = Enqueue(responseChan, pending)
    /\ sentP' = Append(sentP, pending)
    /\ pcD' = IF retAfter THEN "exit" ELSE "scan"
    /\ UNCHANGED <<direct, lines, scanEnd, responseID, pending, retAfter,
                   respClosed, bodyClosed, relayVars, loggedStream, loggedClosed,
                   pcC, received, sentS, requestVars, extVars>>

\* Mutant: the goroutine closes the channel but never the response body.
DecoderReturnLeaksBody ==
    /\ pcD = "exit"
    /\ respClosed' = TRUE
    /\ pcD' = "done"
    /\ UNCHANGED <<direct, lines, scanEnd, responseID, pending, retAfter,
                   responseChan, bodyClosed, relayVars, loggedStream,
                   loggedClosed, pcC, received, sentP, sentS, requestVars, extVars>>

\* The deferred calls: close(responseChan), then resp.Body.Close().
DecoderReturn ==
    /\ pcD = "exit"
    /\ respClosed' = TRUE
    /\ bodyClosed' = bodyClosed + 1
    /\ pcD' = "done"
    /\ UNCHANGED <<direct, lines, scanEnd, responseID, pending, retAfter,
                   responseChan, relayVars, loggedStream, loggedClosed, pcC,
                   received, sentP, sentS, requestVars, extVars>>

\* for chunk := range stream: a chunk is received (service.go:206).
RelayRecv ==
    /\ pcR = "recv" /\ responseChan # <<>>
    /\ chunkR' = Head(responseChan)
    /\ responseChan' = Tail(responseChan)
    /\ pcR' = "send"
    /\ UNCHANGED <<direct, decoderVars, respClosed, totalChunks, loggedStream,
                   loggedClosed, pcC, received, sentP, sentS, requestVars, extVars>>

\* for chunk := range stream: the channel is closed and drained.
RelayRangeEnd ==
    /\ pcR = "recv" /\ responseChan = <<>> /\ respClosed
    /\ pcR' = "exit"
    /\ UNCHANGED <<direct, decoderVars, responseChan, respClosed, chunkR,
                   totalChunks, loggedStream, loggedClosed, pcC, received,
                   sentP, sentS, requestVars, extVars>>

\* Mutant: the relay returns after the first chunk it forwards.
RelayStopsAlways(chunk) == TRUE

\* Whether the relay returns after forwarding `chunk` (service.go 209-219).
RelayStops(chunk) == chunk.Error # Nil \/ chunk.Done

\* loggedStream <- chunk, then the Error / Done tests (service.go 207-221).
RelaySend ==
    /\ pcR = "send" /\ ~ChanFull(loggedStream)
    /\ loggedStream' = Enqueue(loggedStream, chunkR)
    /\ sentS' = Append(sentS, chunkR)
    /\ IF RelayStops(chunkR)
       THEN pcR' = "exit" /\ UNCHANGED totalChunks
       ELSE pcR' = "recv" /\ totalChunks' = totalChunks + 1
    /\ UNCHANGED <<direct, decoderVars, responseChan, respClosed, chunkR,
                   loggedClosed, pcC, received, sentP, requestVars, extVars>>

\* The deferred close(loggedStream) (service.go:202).
RelayReturn ==
    /\ pcR = "exit"
    /\ loggedClosed' = TRUE
    /\ pcR' = "done"
    /\ UNCHANGED <<direct, decoderVars, responseChan, respClosed, chunkR,
                   totalChunks, loggedStream, pcC, received, sentP, sentS,
                   requestVars, extVars>>

\* A consumer ranging over the channel ChatStream returned.
ConsumerRecvProvider ==
    /\ direct /\ pcC = "recv" /\ responseChan # <<>>
    /\ received' = Append(received, Head(responseChan))
    /\ responseChan' = Tail(responseChan)
    /\ UNCHANGED <<direct, decoderVars, respClosed, relayVars, loggedStream,
                   loggedClosed, pcC, sentP, sentS, requestVars, extVars>>

ConsumerRecvService ==
    /\ ~direct /\ pcC = "recv" /\ loggedStream # <<>>
    /\ received' = Append(received, Head(loggedStream))
    /\ loggedStream' = Tail(loggedStream)
    /\ UNCHANGED <<direct, decoderVars, responseChan, respClosed, relayVars,
                   loggedClosed, pcC, sentP, sentS, requestVars, extVars>>

ConsumerRangeEnd ==
    /\ pcC = "recv"
    /\ IF direct THEN responseChan = <<>> /\ respClosed
                 ELSE loggedStream = <<>> /\ loggedClosed
    /\ pcC' = "done"
    /\ UNCHANGED <<direct, decoderVars, responseChan, respClosed, relayVars,
                   loggedStream, loggedClosed, received, sentP, sentS,
                   requestVars, extVars>>

StreamNext ==
    \/ Scan \/ ScanEOF \/ ScanFail \/ DecoderSend \/ DecoderReturn
    \/ RelayRecv \/ RelayRangeEnd \/ RelaySend \/ RelayReturn
    \/ ConsumerRecvProvider \/ ConsumerRecvService \/ ConsumerRangeEnd

StreamSpec == StreamInit /\ [][StreamNext]_vars

\* ------------------------------------------------------------ cancellation
\* The caller's context is cancelled or its deadline passes. The decoder never
\* looks at ctx (chat.go 95-157 has no ctx.Done()): cancellation reaches it
\* only as a failing read of the body, after the lines the scanner has already
\* buffered.
Cancel ==
    /\ ~cancelled /\ pcD # "off"
    /\ cancelled' = TRUE
    /\ UNCHANGED <<streamVars, requestVars, serviceVars, registryVars, uiVars>>

\* The consumer leaves its range loop without draining the channel, as askAI
\* does on `return errMsg(...)` and `break`.
ConsumerStop ==
    /\ pcC = "recv"
    /\ pcC' = "stopped"
    /\ UNCHANGED <<direct, decoderVars, responseChan, respClosed, relayVars,
                   loggedStream, loggedClosed, received, sentP, sentS,
                   requestVars, extVars>>

CancelNext == StreamNext \/ Cancel \/ ConsumerStop

\* Every goroutine that can run is eventually run, and a consumer that has not
\* left its loop keeps receiving; nothing forces Cancel or ConsumerStop.
CancelFairness ==
    /\ WF_vars(Scan \/ ScanEOF \/ ScanFail)
    /\ WF_vars(DecoderSend) /\ WF_vars(DecoderReturn)
    /\ WF_vars(RelayRecv) /\ WF_vars(RelayRangeEnd)
    /\ WF_vars(RelaySend) /\ WF_vars(RelayReturn)
    /\ WF_vars(ConsumerRecvProvider) /\ WF_vars(ConsumerRecvService)
    /\ WF_vars(ConsumerRangeEnd)

CancelSpec == StreamInit /\ [][CancelNext]_vars /\ CancelFairness

\* -------------------------------------------------------- request actions
streamOff ==
    /\ direct = TRUE /\ lines = <<>> /\ scanEnd = "open" /\ responseID = ""
    /\ pcD = "off" /\ pending = NoChunk /\ retAfter = FALSE
    /\ responseChan = <<>> /\ respClosed = FALSE /\ bodyClosed = 0
    /\ pcR = "idle" /\ chunkR = NoChunk /\ totalChunks = 0
    /\ loggedStream = <<>> /\ loggedClosed = FALSE
    /\ pcC = "off" /\ received = <<>> /\ sentP = <<>> /\ sentS = <<>>

RequestInit ==
    /\ cfgMaxRetries \in -1..MaxCfgRetries
    /\ maxRetries = NewClientMaxRetries(cfgMaxRetries)
    /\ pcM = "loop" /\ i = 0 /\ resp = 0 /\ err = 0
    /\ attempts = <<>> /\ sleeps = <<>> /\ result = NoResult
    /\ streamOff
    /\ extOff

\* One iteration of the retry loop up to its break or its sleep
\* (client.go 82-94).
Attempt ==
    /\ pcM = "loop" /\ i <= maxRetries
    /\ \E o \in Outcomes :
         LET k == Len(attempts) + 1
             e == IF o.neterr THEN k ELSE 0
             r == IF o.neterr THEN 0 ELSE k
             brk == ShouldBreak(e, o.status)
         IN /\ err' = e
            /\ resp' = r
            /\ attempts' = CloseBody(Append(attempts, o), k, ~brk /\ r # 0)
            /\ pcM' = IF brk \/ LastAttempt(i, maxRetries) THEN "after" ELSE "sleep"
    /\ UNCHANGED <<cfgMaxRetries, maxRetries, i, sleeps, result, streamVars, extVars>>

\* The loop condition i <= c.maxRetries is false (client.go:82).
LoopExit ==
    /\ pcM = "loop" /\ i > maxRetries
    /\ pcM' = "after"
    /\ UNCHANGED <<cfgMaxRetries, maxRetries, i, resp, err, attempts, sleeps,
                   result, streamVars, extVars>>

\* time.Sleep(time.Duration(i+1) * time.Second), then i++ (client.go:97).
Sleep ==
    /\ pcM = "sleep"
    /\ sleeps' = Append(sleeps, Backoff(i))
    /\ i' = i + 1
    /\ pcM' = "loop"
    /\ UNCHANGED <<cfgMaxRetries, maxRetries, resp, err, attempts, result,
                   streamVars, extVars>>

\* client.go 100-127, with the deferred resp.Body.Close() of line 105.
Finish ==
    /\ pcM = "after"
    /\ result' = Classify(err, resp, attempts, maxRetries)
    /\ attempts' = CloseBody(attempts, resp, err = 0 /\ resp # 0 /\ result'.kind # "ok")
    /\ pcM' = "done"
    /\ UNCHANGED <<cfgMaxRetries, maxRetries, i, resp, err, sleeps, streamVars, extVars>>

RequestNext == Attempt \/ LoopExit \/ Sleep \/ Finish

RequestSpec == RequestInit /\ [][RequestNext]_vars

\* --------------------------------------------------------------- registry
\* Goroutines call RegisterProvider, GetProvider and ListProviders on one
\* Service. The methods take no lock (service.go 136-157).
RegistryInit ==
    /\ providers = [n \in Names |-> NoProvider]
    /\ gpc = [g \in Goroutines |-> IdleOp]
    /\ regs = <<>>
    /\ svcCall = NoCall /\ svcResult = NoSvcResult
    /\ providerCalls = <<>> /\ chansMade = 0 /\ goroutines = 0
    /\ ctxOff /\ uiOff /\ streamOff /\ requestOff

regUnchanged == <<streamVars, requestVars, ctxVars, uiVars, svcCall, svcResult,
                  providerCalls, chansMade, goroutines>>

\* A goroutine enters a registry method and reaches its map access.
RegCall(g) ==
    /\ gpc[g].phase \in {"idle", "done"} /\ Len(regs) < MaxCalls
    /\ \E op \in {"register", "get", "list"}, n \in Names, pr \in Providers :
         /\ (op # "register") => pr = "p1"
         /\ (op = "list") => n = "openai"
         /\ gpc' = [gpc EXCEPT ![g] = RegOp(op, n, pr, "map", NoOut)]
         /\ regs' = Append(regs, [g |-> g, op |-> op, name |-> n, prov |-> pr])
    /\ UNCHANGED <<providers, regUnchanged>>

\* The map access completes and the method returns.
RegAccess(g) ==
    /\ gpc[g].phase = "map"
    /\ LET c == gpc[g] IN
       \/ /\ c.op = "register"
          /\ providers' = Put(providers, c.name, c.prov)
          /\ gpc' = [gpc EXCEPT ![g].phase = "done"]
       \/ /\ c.op = "get"
          /\ gpc' = [gpc EXCEPT ![g].phase = "done",
                                ![g].out = GetProvider(providers, c.name)]
          /\ UNCHANGED providers
       \/ /\ c.op = "list"
          /\ \E q \in KeyOrders(providers) :
                gpc' = [gpc EXCEPT ![g].phase = "done",
                                   ![g].out = RegOut(NoProvider, Nil, q)]
          /\ UNCHANGED providers
    /\ UNCHANGED <<regs, regUnchanged>>

\* Two goroutines are inside the map at once and one of them writes: a data
\* race. Besides going on as above, the Go runtime may stop the process
\* ("fatal error: concurrent map writes" / "concurrent map read and map write").
Racing ==
    \E g, h \in Goroutines :
        /\ g # h /\ gpc[g].phase = "map" /\ gpc[h].phase = "map"
        /\ gpc[g].op = "register"

RegFatal ==
    /\ Racing
    /\ gpc' = [g \in Goroutines |-> [gpc[g] EXCEPT !.phase = "fatal"]]
    /\ UNCHANGED <<providers, regs, regUnchanged>>

RegistryNext ==
    \/ \E g \in Goroutines : RegCall(g)
    \/ \E g \in Goroutines : RegAccess(g)
    \/ RegFatal

RegistrySpec == RegistryInit /\ [][RegistryNext]_vars

\* ---------------------------------------------------------------- service
\* One call of a Service method on a registry built beforehand, as cmd/main.go
\* does: empty, or holding the OpenAI client under "openai".
ProviderOut(value, error) == [value |-> value, error |-> error]

\* What Client.Chat returns: a response and no error, or no response and an
\* error.
ChatOutcomes ==
    {ProviderOut(r, Nil) : r \in {"response1", "response2"}}
      \cup {ProviderOut("nil", e) : e \in {"RequestFailed", "ProviderError", "decode"}}

\* What Client.GetAvailableModels returns (models.go 22-44).
ModelsOutcomes ==
    {ProviderOut("ids", Nil)}
      \cup {ProviderOut("nil", e) : e \in {"RequestFailed", "ProviderError", "decode"}}

\* What Client.ChatStream returns (chat.go 63-159): its channel, or the error
\* of building or sending the request.
StreamOutcomes ==
    {ProviderOut("responseChan", Nil)}
      \cup {ProviderOut("nil", e) : e \in {"marshal", "RequestFailed", "ProviderError"}}

ProviderCall(prov, method, out) == [prov |-> prov, method |-> method, out |-> out]

\* Mutant: the provider's error is replaced by one of the Service's own.
ServiceChatWrapped(o) ==
    IF o.error # Nil THEN SvcResult("error", "nil", "chat failed")
    ELSE SvcResult("ok", o.value, Nil)

\* Service.Chat after the provider has answered (service.go 171-180).
ServiceChat(o) ==
    IF o.error # Nil THEN SvcResult("error", "nil", o.error)
    ELSE SvcResult("ok", o.value, Nil)

\* `return provider.GetAvailableModels(ctx)` (service.go:270)
ServiceModels(o) == SvcResult(IF o.error # Nil THEN "error" ELSE "ok", o.value, o.error)

\* `_, err = provider.Chat(ctx, req); return err` (service.go 291-292)
ServiceHealth(o) == SvcResult(IF o.error # Nil THEN "error" ELSE "ok", "nil", o.error)

\* `if err != nil { return nil, err }` after s.GetProvider
\* (service.go 161-164, 185-188, 265-268, 275-278).
LookupFailed(l) == SvcResult("error", "nil", l.err)

ServiceInit ==
    /\ providers \in {[n \in Names |-> NoProvider],
                      Put([n \in Names |-> NoProvider], "openai", "p1")}
    /\ svcCall = NoCall /\ svcResult = NoSvcResult
    /\ providerCalls = <<>> /\ chansMade = 0 /\ goroutines = 0
    /\ ctxOff /\ registryOff /\ uiOff /\ streamOff /\ requestOff

svcUnchanged == <<requestVars, ctxVars, registryVars, uiVars, providers>>

\* Service.GetProvider called by itself (service.go 142-148)
SvcGetProvider(name) ==
    /\ svcCall = NoCall
    /\ svcCall' = SvcCall("GetProvider", name)
    /\ LET l == GetProvider(providers, name) IN
         svcResult' = IF l.err # Nil THEN LookupFailed(l) ELSE SvcResult("ok", l.prov, Nil)
    /\ UNCHANGED <<providerCalls, chansMade, goroutines, streamVars, svcUnchanged>>

\* Service.Chat (service.go 160-181)
SvcChat(name) ==
    /\ svcCall = NoCall
    /\ svcCall' = SvcCall("Chat", name)
    /\ LET l == GetProvider(providers, name) IN
         IF l.err # Nil
         THEN svcResult' = LookupFailed(l) /\ UNCHANGED providerCalls
         ELSE \E o \in ChatOutcomes :
                /\ providerCalls' = Append(providerCalls, ProviderCall(l.prov, "Chat", o))
                /\ svcResult' = ServiceChat(o)
    /\ UNCHANGED <<chansMade, goroutines, streamVars, svcUnchanged>>

\* Service.HealthCheck (service.go 274-293)
SvcHealthCheck(name) ==
    /\ svcCall = NoCall
    /\ svcCall' = SvcCall("HealthCheck", name)
    /\ LET l == GetProvider(providers, name) IN
         IF l.err # Nil
         THEN svcResult' = LookupFailed(l) /\ UNCHANGED providerCalls
         ELSE \E o \in ChatOutcomes :
                /\ providerCalls' = Append(providerCalls, ProviderCall(l.prov, "Chat", o))
                /\ svcResult' = ServiceHealth(o)
    /\ UNCHANGED <<chansMade, goroutines, streamVars, svcUnchanged>>

\* Service.GetProviderModels (service.go 264-271)
SvcGetProviderModels(name) ==
    /\ svcCall = NoCall
    /\ svcCall' = SvcCall("GetProviderModels", name)
    /\ LET l == GetProvider(providers, name) IN
         IF l.err # Nil
         THEN svcResult' = LookupFailed(l) /\ UNCHANGED providerCalls
         ELSE \E o \in ModelsOutcomes :
                /\ providerCalls' = Append(providerCalls, ProviderCall(l.prov, "GetAvailableModels", o))
                /\ svcResult' = ServiceModels(o)
    /\ UNCHANGED <<chansMade, goroutines, streamVars, svcUnchanged>>

\* Service.ChatStream (service.go 184-226) up to its return. On success the
\* provider has made responseChan and started the decoder (chat.go 92-95), the
\* Service has made loggedStream and started the relay (service.go 199-201),
\* and the caller ranges over loggedStream.
SvcChatStream(name) ==
    /\ svcCall = NoCall
    /\ svcCall' = SvcCall("ChatStream", name)
    /\ LET l == GetProvider(providers, name) IN
         IF l.err # Nil
         THEN /\ svcResult' = LookupFailed(l)
              /\ UNCHANGED <<providerCalls, chansMade, goroutines, streamVars>>
         ELSE \E o \in StreamOutcomes :
                /\ providerCalls' = Append(providerCalls, ProviderCall(l.prov, "ChatStream", o))
                /\ IF o.error # Nil
                   THEN /\ svcResult' = SvcResult("error", "nil", o.error)
                        /\ UNCHANGED <<chansMade, goroutines, streamVars>>
                   ELSE /\ svcResult' = SvcResult("ok", "loggedStream", Nil)
                        /\ chansMade' = chansMade + 2
                        /\ goroutines' = goroutines + 2
                        /\ direct' = FALSE
                        /\ pcD' = "scan" /\ pcR' = "recv" /\ pcC' = "recv"
                        /\ UNCHANGED <<lines, scanEnd, responseID, pending, retAfter,
                                       responseChan, respClosed, bodyClosed, chunkR,
                                       totalChunks, loggedStream, loggedClosed,
                                       received, sentP, sentS>>
    /\ UNCHANGED svcUnchanged

ServiceNext ==
    \/ \E n \in Names : SvcGetProvider(n)
    \/ \E n \in Names : SvcChat(n)
    \/ \E n \in Names : SvcHealthCheck(n)
    \/ \E n \in Names : SvcGetProviderModels(n)
    \/ \E n \in Names : SvcChatStream(n)
    \/ Scan \/ ScanEOF \/ ScanFail \/ DecoderSend \/ DecoderReturn
    \/ RelayRecv \/ RelayRangeEnd \/ RelaySend \/ RelayReturn
    \/ ConsumerRecvService \/ ConsumerRangeEnd

ServiceSpec == ServiceInit /\ [][ServiceNext]_vars

\* The same under fair scheduling: every goroutine that can run is eventually
\* run, the body ends, and the caller keeps receiving until its channel is
\* closed.
ServiceFairSpec == ServiceInit /\ [][ServiceNext]_vars /\ CancelFairness

\* ------------------------------------------------------------ terminal UI
\* The bubbletea program around ChatModel: Update handles key presses and the
\* messages of askAI commands, each of which runs in a goroutine of its own
\* over the stream Service.ChatStream gave it. Every question is typed once.
UIInit == uiOff /\ ctxOff /\ serviceOff /\ registryOff /\ streamOff /\ requestOff

uiUnchanged == <<streamVars, requestVars, ctxVars, serviceVars, registryVars>>

\* Update, tea.KeyMsg "enter" (chat_model.go 52-64).
Enter(q) ==
    /\ ~quit
    /\ IF q = ""
       THEN UNCHANGED <<history, pcA>>
       ELSE /\ pcA[q] = "idle"
            /\ history' = Append(history, HistoryLine("You", q, <<>>, Nil))
            /\ pcA' = [pcA EXCEPT ![q] = "start"]
    /\ UNCHANGED <<aiReply, got, msg, quit, uiUnchanged>>

\* Update, tea.KeyMsg "ctrl+c" or "esc" (chat_model.go 50-51).
Quit ==
    /\ ~quit
    /\ quit' = TRUE
    /\ UNCHANGED <<history, pcA, aiReply, got, msg, uiUnchanged>>

\* askAI: m.aiService.ChatStream returns (chat_model.go 104-112).
AskStart(q) ==
    /\ ~quit /\ pcA[q] = "start"
    /\ \/ \E e \in UIStreamErrors :
            /\ msg' = [msg EXCEPT ![q] = ErrMsg(e)]
            /\ pcA' = [pcA EXCEPT ![q] = "msg"]
       \/ pcA' = [pcA EXCEPT ![q] = "recv"] /\ UNCHANGED msg
    /\ UNCHANGED <<history, aiReply, got, quit, uiUnchanged>>

\* askAI: `for chunk := range stream` receives a chunk (chat_model.go 115-128).
AskRecv(q) ==
    /\ ~quit /\ pcA[q] = "recv" /\ Len(got[q]) < MaxChunks
    /\ \E chunk \in UIChunks :
         LET r == AskStep(chunk, aiReply[q]) IN
         /\ got' = [got EXCEPT ![q] = Append(@, chunk)]
         /\ aiReply' = [aiReply EXCEPT ![q] = r.reply]
         /\ pcA' = [pcA EXCEPT ![q] = r.next]
         /\ msg' = [msg EXCEPT ![q] = r.msg]
    /\ UNCHANGED <<history, quit, uiUnchanged>>

\* askAI: the stream is closed and the range loop ends (chat_model.go:115).
AskClosed(q) ==
    /\ ~quit /\ pcA[q] = "recv"
    /\ pcA' = [pcA EXCEPT ![q] = "ret"]
    /\ UNCHANGED <<history, aiReply, got, msg, quit, uiUnchanged>>

\* askAI: return responseMsg(fullReply) (chat_model.go 130-139).
AskReturn(q) ==
    /\ ~quit /\ pcA[q] = "ret"
    /\ msg' = [msg EXCEPT ![q] = ResponseMsg(aiReply[q])]
    /\ pcA' = [pcA EXCEPT ![q] = "msg"]
    /\ UNCHANGED <<history, aiReply, got, quit, uiUnchanged>>

\* Update, responseMsg and errMsg (chat_model.go 67-80).
UpdateMsg(q) ==
    /\ ~quit /\ pcA[q] = "msg"
    /\ history' = Append(history,
                         IF msg[q].kind = "errMsg"
                         THEN HistoryLine("Error", q, <<>>, msg[q].err)
                         ELSE HistoryLine("AI", q, msg[q].text, Nil))
    /\ pcA' = [pcA EXCEPT ![q] = "done"]
    /\ UNCHANGED <<aiReply, got, msg, quit, uiUnchanged>>

UINext ==
    \/ \E q \in Questions : Enter(q)
    \/ Quit
    \/ \E q \in Asked : AskStart(q)
    \/ \E q \in Asked : AskRecv(q)
    \/ \E q \in Asked : AskClosed(q)
    \/ \E q \in Asked : AskReturn(q)
    \/ \E q \in Asked : UpdateMsg(q)

UISpec == UIInit /\ [][UINext]_vars

\* ================================================================ claims
Last(q) == q[Len(q)]
Front(q) == SubSeq(q, 1, Len(q) - 1)
MaxOf(S) == CHOOSE m \in S : \A n \in S : n <= m

\* What the claims say about a body, read off its lines (not off the decoder).
IsData(l) == l.prefix = "data: "
IsDoneLine(l) == IsData(l) /\ l.payload.kind = "done"
IsUndecodable(l) == IsData(l) /\ l.payload.kind = "malformed"
IsFrame(l) == IsData(l) /\ l.payload.kind \in {"object", "null"}
FrameId(l) == IF l.payload.kind = "object" THEN l.payload.id ELSE ""
HasFirstChoice(l) == IsFrame(l) /\ l.payload.choices # <<>>
HasFinish(l) == HasFirstChoice(l) /\ l.payload.choices[1].finish_reason # "null"
EndsSequence(l) == IsDoneLine(l) \/ IsUndecodable(l) \/ HasFinish(l)

\* The id of the most recent frame decoded among the first n lines.
LastSeenId(n) ==
    LET ds == {j \in 1..n : IsFrame(lines[j])}
    IN IF ds = {} THEN "" ELSE FrameId(lines[MaxOf(ds)])

\* The chunk a frame with a first choice stands for.
FrameChunk(l) ==
    StreamResponse(l.payload.id, l.payload.choices[1].content, HasFinish(l), Nil)

\* The chunks of the frames among the first n lines, in the order read.
RECURSIVE FrameChunks(_)
FrameChunks(n) ==
    IF n = 0 THEN <<>>
    ELSE IF HasFirstChoice(lines[n]) THEN Append(FrameChunks(n - 1), FrameChunk(lines[n]))
    ELSE FrameChunks(n - 1)

\* Every chunk the decoder has produced: those sent and the one it is sending.
Emitted == IF pcD = "send" THEN Append(sentP, pending) ELSE sentP

DecoderEnded == pcD \in {"exit", "done"}

\* C1: when the provider channel is closed, the chunks sent on it are non-empty
\* and the last one is terminal (Done or Error).
C1_ClosedAfterTerminal ==
    respClosed => (sentP # <<>> /\ IsTerminal(Last(sentP)))

\* C2: on the provider channel, on the Service channel and at the consumer, no
\* chunk has both Done and Error, a terminal chunk is the last chunk, and the
\* goroutine that sent a terminal chunk neither reads nor sends again.
WellTerminated(log) ==
    \A j \in 1..Len(log) :
        /\ ~(log[j].Done /\ log[j].Error # Nil)
        /\ IsTerminal(log[j]) => j = Len(log)

C2_AtMostOneTerminal ==
    /\ WellTerminated(sentP) /\ WellTerminated(sentS) /\ WellTerminated(received)
    /\ (sentP # <<>> /\ IsTerminal(Last(sentP))) => DecoderEnded
    /\ (sentS # <<>> /\ IsTerminal(Last(sentS))) => pcR \in {"exit", "done"}
    /\ respClosed => pcD = "done"
    /\ loggedClosed => pcR = "done"

C2_Witness ==
    /\ ~direct /\ pcC = "done" /\ loggedClosed /\ respClosed
    /\ Len(received) = 3 /\ Last(received).Done
    /\ Len(sentP) = 3

\* C3: once the read loop has ended at end-of-file or on a read failure and the
\* decoder is done, the last chunk sent is an error chunk with Done unset.
C3_LoopEndEmitsError ==
    (pcD = "done" /\ scanEnd # "open") =>
        /\ sentP # <<>>
        /\ Last(sentP).Error # Nil /\ ~Last(sentP).Done
        /\ \A j \in 1..(Len(sentP) - 1) : ~IsTerminal(sentP[j])

\* C4: a `data: [DONE]` line read before any undecodable payload and any frame
\* with a finish_reason is the last line read; the chunk produced for it is
\* {ID: last seen id, Content: "", Done: true, no Error}; it is the last chunk
\* sent and the last the consumer receives, and the channel is then closed.
GoodDone(k) ==
    /\ k \in 1..Len(lines) /\ IsDoneLine(lines[k])
    /\ \A j \in 1..(k - 1) : ~IsUndecodable(lines[j]) /\ ~HasFinish(lines[j])

C4_DoneChunk ==
    \A k \in 1..Len(lines) : GoodDone(k) =>
        LET want == StreamResponse(LastSeenId(k - 1), "", TRUE, Nil) IN
        /\ k = Len(lines) /\ scanEnd = "open" /\ pcD # "scan"
        /\ Emitted # <<>> /\ Last(Emitted) = want
        /\ pcD = "send" => retAfter
        /\ pcD = "done" => respClosed /\ Last(sentP) = want
        /\ pcC = "done" => received # <<>> /\ Last(received) = want

C4_Witness ==
    /\ pcC = "done"
    /\ lines = <<Line("data: ", Payload("object", "x", <<Choice("Hi", "null")>>)),
                 Line("data: ", Payload("done", "", <<>>))>>
    /\ received = <<StreamResponse("x", "Hi", FALSE, Nil),
                    StreamResponse("x", "", TRUE, Nil)>>

\* C5: a `data: ` line with an undecodable payload read before any terminal
\* chunk is the last line read; exactly one chunk is produced for it, with
\* Error set and Done unset; it is the last chunk, and the chunks of the
\* earlier frames precede it.
FirstBad(k) ==
    /\ k \in 1..Len(lines) /\ IsUndecodable(lines[k])
    /\ \A j \in 1..(k - 1) : ~EndsSequence(lines[j])

C5_DecodeFailure ==
    \A k \in 1..Len(lines) : FirstBad(k) =>
        /\ k = Len(lines) /\ scanEnd = "open" /\ pcD # "scan"
        /\ Emitted # <<>>
        /\ Last(Emitted).Error # Nil /\ ~Last(Emitted).Done
        /\ Front(Emitted) = FrameChunks(k - 1)
        /\ pcD = "send" => retAfter
        /\ pcD = "done" => respClosed /\ sentP = Emitted
        /\ pcC = "done" => received = Emitted

C5_Witness ==
    /\ pcC = "done" /\ Len(lines) = 3 /\ IsUndecodable(lines[3])
    /\ Len(received) = 3 /\ received[3].Error # Nil /\ received[1].Content = "Hi"

\* C6: the chunks are produced in the order their frames were read, and each
\* channel hands them on in that order, none twice and none lost.
Produced ==
    LET n == Len(lines)
        fc == FrameChunks(n)
    IN IF scanEnd = "err" THEN Append(fc, StreamResponse("", "", FALSE, "scan"))
       ELSE IF n > 0 /\ IsDoneLine(lines[n])
            THEN Append(fc, StreamResponse(LastSeenId(n - 1), "", TRUE, Nil))
       ELSE IF n > 0 /\ IsUndecodable(lines[n])
            THEN Append(fc, StreamResponse("", "", FALSE, "parse"))
       ELSE fc

InRelay == IF pcR = "send" THEN <<chunkR>> ELSE <<>>

C6_OrderedDelivery ==
    /\ Emitted = Produced
    /\ direct => sentP = received \o responseChan
    /\ ~direct => /\ sentP = sentS \o InRelay \o responseChan
                  /\ sentS = received \o loggedStream
    /\ pcC = "done" => received = Produced /\ DecoderEnded

C6_Witness ==
    /\ ~direct /\ pcC = "done" /\ Len(received) = 3
    /\ received[1].ID = "x" /\ received[2].ID = "y" /\ received[3].ID = "x"

\* ---------------------------------------------------------- makeRequest
\* An attempt that the retry rule counts as failed.
Failed(a) == a.neterr \/ a.status >= 500
AllFailed == \A k \in 1..Len(attempts) : Failed(attempts[k])

\* C7: with maxRetries >= 0 there are at most maxRetries+1 attempts; every
\* attempt but the last failed (network error or status >= 500); an attempt
\* with status < 500 is the last one; and when every attempt failed the call
\* ends after exactly maxRetries+1 attempts (3 for maxRetries = 2).
C7_BoundedRetries ==
    maxRetries >= 0 =>
        /\ Len(attempts) <= maxRetries + 1
        /\ \A k \in 1..(Len(attempts) - 1) : Failed(attempts[k])
        /\ \A k \in 1..Len(attempts) :
              ~Failed(attempts[k]) => k = Len(attempts) /\ pcM \in {"after", "done"}
        /\ (pcM = "done" /\ AllFailed) => Len(attempts) = maxRetries + 1

C7_Witness ==
    /\ pcM = "done" /\ maxRetries = 2 /\ Len(attempts) = 3
    /\ \A k \in 1..3 : ~attempts[k].neterr /\ attempts[k].status = 500

\* C8: when all maxRetries+1 attempts failed, makeRequest fails with
\* RequestFailed wrapping the last attempt's error.
C8_ExhaustedIsRequestFailed ==
    (pcM = "done" /\ maxRetries >= 0 /\ Len(attempts) = maxRetries + 1 /\ AllFailed) =>
        /\ result.kind = "RequestFailed"
        /\ Last(attempts).neterr => result.wraps = Len(attempts)

\* C9: when the response makeRequest ends up with has status >= 400, the call
\* fails with ProviderError{code,message,type} of the body the vendor sent if
\* that body is an error envelope, and otherwise with HTTPError{status, body}.
C9_ErrorStatusClassified ==
    (pcM = "done" /\ err = 0 /\ resp # 0 /\ attempts[resp].status >= 400) =>
        LET sent == attempts[resp].body IN
        IF sent.kind = "envelope"
        THEN /\ result.kind = "ProviderError"
             /\ result.body.code = sent.code
             /\ result.body.message = sent.message
             /\ result.body.type = sent.type
        ELSE /\ result.kind = "HTTPError"
             /\ result.status = attempts[resp].status
             /\ result.body = sent

\* C10: when the attempts before the last all failed and the last returned a
\* status < 400, makeRequest returns that response with a nil error, its body
\* open, and the body of every earlier response closed.
C10_SuccessAfterRetries ==
    (/\ pcM = "done" /\ maxRetries >= 0 /\ attempts # <<>>
     /\ ~Last(attempts).neterr /\ Last(attempts).status < 400
     /\ \A k \in 1..(Len(attempts) - 1) : Failed(attempts[k])) =>
        /\ result.kind = "ok" /\ result.resp = Len(attempts)
        /\ result.wraps = 0
        /\ ~Last(attempts).closed
        /\ \A k \in 1..(Len(attempts) - 1) :
              ~attempts[k].neterr => attempts[k].closed

C10_Witness ==
    /\ pcM = "done" /\ Len(attempts) = 3 /\ result.kind = "ok"
    /\ attempts[1].neterr /\ attempts[2].status = 503 /\ attempts[3].status = 200

\* ------------------------------------------------------------ cancellation
\* C11: after the context is cancelled the decoder eventually closes the
\* response body and the delivery channel.
C11_CancelCloses == cancelled ~> (respClosed /\ bodyClosed = 1)

\* C16: once the context is cancelled, a further send on the provider channel
\* can only be an error chunk.
C16_NoChunkAfterCancel ==
    [][(cancelled /\ sentP' # sentP) => Last(sentP').Error # Nil]_vars

\* C17: neither channel ever holds more than its capacity; a goroutine blocked
\* at a send on a full channel keeps its chunk and reads nothing until the
\* channel is received from; and a chunk leaves a sender only into the channel.
BlockedD == pcD = "send" /\ Len(responseChan) = ChanCap
BlockedR == pcR = "send" /\ Len(loggedStream) = ChanCap

C17_Bounded ==
    /\ Len(responseChan) <= ChanCap /\ Len(loggedStream) <= ChanCap

C17_BlockedStep ==
    /\ BlockedD => /\ pcD' = "send" /\ pending' = pending
                   /\ lines' = lines /\ scanEnd' = scanEnd /\ sentP' = sentP
                   /\ responseChan' \in {responseChan, Tail(responseChan)}
    /\ BlockedR => /\ pcR' = "send" /\ chunkR' = chunkR /\ sentS' = sentS
                   /\ loggedStream' \in {loggedStream, Tail(loggedStream)}
                   /\ Len(responseChan') >= Len(responseChan)
    /\ (pcD = "send" /\ pcD' # "send") =>
          /\ sentP' = Append(sentP, pending)
          /\ responseChan' = Append(responseChan, pending)
    /\ (pcR = "send" /\ pcR' # "send") =>
          /\ sentS' = Append(sentS, chunkR)
          /\ loggedStream' = Append(loggedStream, chunkR)

C17_Backpressure == []C17_Bounded /\ [][C17_BlockedStep]_vars

C17_Witness ==
    /\ direct /\ BlockedD /\ received = <<>> /\ Len(sentP) = ChanCap
    /\ ~ENABLED DecoderSend /\ ENABLED ConsumerRecvProvider

\* C15 as claimed: every decodable frame read, also one with no choices, puts
\* exactly one chunk {ID: id, Content: first delta content, Done: finish_reason
\* present} in the decoder's hands.
ReadsFrame == lines' # lines /\ IsFrame(Last(lines'))
FirstContent(l) == IF HasFirstChoice(l) THEN l.payload.choices[1].content ELSE ""
EmitsFor(l) ==
    /\ pcD' = "send" /\ Emitted' = Append(Emitted, pending')
    /\ pending' = StreamResponse(FrameId(l), FirstContent(l), HasFinish(l), Nil)
    /\ retAfter' = HasFinish(l)
    /\ responseID' = FrameId(l)

C15_EveryFrameEmits == [][ReadsFrame => EmitsFor(Last(lines'))]_vars

\* C15 as amended: a decodable frame with at least one choice yields exactly
\* that chunk, and the decoder returns after sending it when Done is set; a
\* decodable frame with no choices yields no chunk and only updates the
\* remembered id; a frame with a finish_reason is the last line read.
EmitsNothingFor(l) ==
    /\ pcD' = "scan" /\ Emitted' = Emitted /\ responseID' = FrameId(l)

FinishIsLast ==
    \A k \in 1..Len(lines) :
        HasFinish(lines[k]) => k = Len(lines) /\ scanEnd = "open" /\ pcD # "scan"

C15_FrameWithChoiceEmits ==
    /\ []FinishIsLast
    /\ [][ReadsFrame => IF HasFirstChoice(Last(lines'))
                        THEN EmitsFor(Last(lines'))
                        ELSE EmitsNothingFor(Last(lines'))]_vars

C15_Witness ==
    /\ lines = <<Line("data: ", Payload("object", "x", <<>>)),
                 Line("data: ", Payload("object", "y", <<Choice("Hi", "null"),
                                                         Choice("!", "stop")>>)),
                 Line("data: ", Payload("object", "x", <<Choice("!", "stop")>>))>>
    /\ sentP = <<StreamResponse("y", "Hi", FALSE, Nil),
                 StreamResponse("x", "!", TRUE, Nil)>>
    /\ pcD = "done"

RECURSIVE RunAlone(_, _, _)
RunAlone(k, rid, out) ==
    IF k > Len(lines)
    THEN IF scanEnd = "err" THEN Append(out, StreamResponse("", "", FALSE, "scan"))
         ELSE out
    ELSE LET r == ProcessLine(lines[k], rid)
             out2 == IF r.emit THEN Append(out, r.chunk) ELSE out
         IN IF r.emit /\ r.ret THEN out2 ELSE RunAlone(k + 1, r.id, out2)

IsPrefix(a, b) == Len(a) <= Len(b) /\ a = SubSeq(b, 1, Len(a))

C20_Deterministic ==
    LET seq == RunAlone(1, "", <<>>) IN
    /\ IsPrefix(received, seq)
    /\ pcC = "done" => received = seq

C20_Witness ==
    /\ ~direct /\ pcC = "done" /\ scanEnd = "err"
    /\ Len(received) = 3 /\ received[3].Error = "scan"

\* --------------------------------------------------------------- registry
\* C12: a write to the providers map by RegisterProvider never overlaps another
\* goroutine's access to the map.
C12_NoOverlappingAccess ==
    \A g, h \in Goroutines :
        (g # h /\ gpc[g].phase = "map" /\ gpc[g].op = "register") =>
            gpc[h].phase # "map"

\* C19: when all registry calls so far came from one goroutine and its last
\* call has returned: the map holds for every name the provider of the most
\* recent RegisterProvider for it; RegisterProvider did not fail; GetProvider
\* returned that provider, or not-found for a name never registered;
\* ListProviders returned the registered names, each once.
RegIdx(n, upto) == {k \in 1..upto : regs[k].op = "register" /\ regs[k].name = n}
LastReg(n, upto) ==
    IF RegIdx(n, upto) = {} THEN NoProvider ELSE regs[MaxOf(RegIdx(n, upto))].prov
Range(q) == {q[k] : k \in 1..Len(q)}

SingleCaller(g) ==
    /\ regs # <<>> /\ \A k \in 1..Len(regs) : regs[k].g = g
    /\ gpc[g].phase = "done"

C19_LastWriteWins ==
    \A g \in Goroutines : SingleCaller(g) =>
        LET c == gpc[g]
            n == Len(regs)
        IN /\ \A m \in Names : providers[m] = LastReg(m, n)
           /\ c.op = "register" => c.out.err = Nil /\ providers[c.name] = c.prov
           /\ c.op = "get" =>
                 IF LastReg(c.name, n) = NoProvider
                 THEN c.out.err = NotFound(c.name) /\ c.out.prov = NoProvider
                 ELSE c.out.err = Nil /\ c.out.prov = LastReg(c.name, n)
           /\ c.op = "list" =>
                 /\ Range(c.out.names) = {m \in Names : LastReg(m, n) # NoProvider}
                 /\ Len(c.out.names) = Cardinality(Range(c.out.names))

C19_Witness ==
    /\ SingleCaller(1) /\ Len(regs) = 3 /\ gpc[1].op = "get"
    /\ regs[1].op = "register" /\ regs[2].op = "register"
    /\ regs[1].name = regs[2].name /\ regs[1].prov # regs[2].prov
    /\ gpc[1].name = regs[1].name /\ gpc[1].out.prov = regs[2].prov

\* ---------------------------------------------------------------- service
\* C13: Service.Chat returns the response and error the provider's Chat
\* returned; Service.ChatStream returns the provider's error unchanged when the
\* provider's ChatStream fails; otherwise what the Service's channel delivered
\* is always a prefix of what the provider's channel delivered, and once the
\* Service's channel is closed the two sequences are equal and the provider
\* delivers nothing more.
C13_Observational ==
    /\ (svcCall.op = "Chat" /\ providerCalls # <<>>) =>
          /\ svcResult.value = Last(providerCalls).out.value
          /\ svcResult.error = Last(providerCalls).out.error
    /\ (svcCall.op = "ChatStream" /\ providerCalls # <<>>
          /\ Last(providerCalls).out.error # Nil) =>
          /\ svcResult.value = "nil"
          /\ svcResult.error = Last(providerCalls).out.error
    /\ (svcCall.op = "ChatStream" /\ svcResult.error = Nil) =>
          /\ IsPrefix(sentS, sentP)
          /\ loggedClosed => DecoderEnded /\ sentS = sentP
          /\ pcC = "done" => received = sentP

C13_Witness ==
    /\ svcCall.op = "ChatStream" /\ svcResult.value = "loggedStream"
    /\ pcC = "done" /\ Len(received) = MaxLines /\ Last(received).Done

\* C14: a Service method called with a name that is not in the registry
\* returns the not-found error for that name and nothing else, no provider
\* method has been called, no channel made and no goroutine started.
C14_UnregisteredNotFound ==
    (svcCall.op # "none" /\ providers[svcCall.name] = NoProvider) =>
        /\ svcResult = SvcResult("error", "nil", NotFound(svcCall.name))
        /\ providerCalls = <<>>
        /\ chansMade = 0 /\ goroutines = 0
        /\ pcD = "off" /\ pcR = "idle" /\ pcC = "off"

C14_Witness ==
    /\ svcCall = SvcCall("ChatStream", "claude")
    /\ providers["openai"] # NoProvider
    /\ svcResult.error = NotFound("claude")

\* ----------------------------------------------------------- retry bound
\* C21: whenever makeRequest is past the retry loop with a nil error, at least
\* one attempt was made and the response it is about to inspect is non-nil.
C21_AttemptBeforeInspect ==
    (pcM \in {"after", "done"} /\ err = 0) => (attempts # <<>> /\ resp # 0)

\* C22: a client built with Config.MaxRetries = n, n >= 0, makes at most n+1
\* attempts per request (a single attempt for n = 0).
C22_ConfiguredBoundHonoured ==
    cfgMaxRetries >= 0 => Len(attempts) <= cfgMaxRetries + 1

\* ------------------------------------------------------------ termination
StreamStarted == svcCall.op = "ChatStream" /\ svcResult.error = Nil
StreamFailed == svcCall.op = "ChatStream" /\ svcResult.error # Nil
AllEnded ==
    /\ pcD = "done" /\ pcR = "done"
    /\ bodyClosed = 1 /\ respClosed /\ loggedClosed

C23_Resources ==
    /\ bodyClosed <= 1
    /\ respClosed <=> pcD = "done"
    /\ loggedClosed <=> pcR = "done"
    /\ pcD = "done" => bodyClosed = 1
    /\ StreamFailed =>
          /\ chansMade = 0 /\ goroutines = 0
          /\ pcD = "off" /\ pcR = "idle" /\ pcC = "off"

C23_ClosedStaysClosed ==
    /\ respClosed => (respClosed' /\ sentP' = sentP /\ bodyClosed' = bodyClosed)
    /\ loggedClosed => (loggedClosed' /\ sentS' = sentS)

\* C23: a streaming call started through the Service, under fair scheduling:
\* the decoder and the relay both end, with the body closed once and both
\* channels closed; a closed channel is never sent on nor closed again; and a
\* ChatStream that failed made no channel and started no goroutine.
C23_StreamTerminates ==
    /\ []C23_Resources
    /\ [][C23_ClosedStaysClosed]_vars
    /\ (StreamStarted ~> AllEnded)

C23_Witness ==
    /\ StreamStarted /\ AllEnded /\ pcC = "done"
    /\ scanEnd = "err" /\ Len(received) > ChanCap

\* ------------------------------------------------------------ terminal UI
RECURSIVE Concat(_)
Concat(chunks) ==
    IF chunks = <<>> THEN <<>>
    ELSE Chars(Head(chunks).Content) \o Concat(Tail(chunks))

MinOf(S) == CHOOSE m \in S : \A n \in S : m <= n

\* The chunks received before the first one with Done or Error set.
BeforeTerminal(g) ==
    LET T == {k \in 1..Len(g) : IsTerminal(g[k])}
    IN IF T = {} THEN g ELSE SubSeq(g, 1, MinOf(T) - 1)
AskReturned(q) == pcA[q] \in {"msg", "done"} /\ got[q] # <<>>

C24_Reply ==
    \A q \in Asked :
        /\ \A k \in 1..(Len(got[q]) - 1) : ~IsTerminal(got[q][k])
        /\ AskReturned(q) =>
              IF Last(got[q]).Error # Nil
              THEN msg[q] = ErrMsg(Last(got[q]).Error)
              ELSE msg[q] = ResponseMsg(Concat(BeforeTerminal(got[q])))
        /\ (~quit /\ pcA[q] = "idle") => ENABLED Enter(q)

C24_ErrorLine ==
    \A q \in Asked :
        (pcA[q] = "msg" /\ msg[q].kind = "errMsg" /\ pcA'[q] = "done") =>
            /\ history' = Append(history, HistoryLine("Error", q, <<>>, msg[q].err))
            /\ quit' = FALSE

\* C24: askAI returns responseMsg with the contents of the chunks it received
\* before the first Done chunk (or before the stream closed) joined in order,
\* the Done chunk's own content left out; it returns errMsg with the chunk's
\* error when a chunk with Error arrives; it receives nothing after either.
\* Update answers errMsg by appending one Error line and does not quit, and
\* while the program has not quit a question not yet asked can be submitted.
C24_AskAI == []C24_Reply /\ [][C24_ErrorLine]_vars

C24_Witness ==
    /\ ~quit /\ pcA["hi"] = "done" /\ msg["hi"].kind = "errMsg" /\ got["hi"] # <<>>
    /\ pcA["more"] = "done" /\ Len(got["more"]) = MaxChunks
    /\ Last(got["more"]).Done /\ Last(got["more"]).Content = "!"
    /\ msg["more"].text = <<"H", "i", "!">>
    /\ Last(history).kind = "AI" /\ history[2].kind = "Error"

====
